---------------------------- MODULE Spec2Model ----------------------------
(***************************************************************************)
(* A model of the c4 compiler of src/c4.rs: the lexer next() with its      *)
(* symbol interning, the fused expression parser / code generator expr(),  *)
(* the statement compilers, compile()/compile_function() and run().        *)
(*                                                                         *)
(* The compiler object (struct C4) is one record `c`.  Source text is a    *)
(* sequence of one-character strings; Ord gives a character's code.  Every *)
(* method of C4 is an operator from a C4 record to a C4 record (or to a    *)
(* result [c, ok, err] for the methods returning Result<(), String>), and  *)
(* each action of the model calls one method, as the tests of              *)
(* src/test_units.rs and main() call them.                                 *)
(***************************************************************************)
EXTENDS Integers, Sequences, FiniteSets, TLC

(***************************************************************************)
(* Bounds of the model.                                                    *)
(***************************************************************************)
\* the longest decimal literal drawn as an input, in digits
MaxDigits == 2
\* how many method calls follow each new source text
MaxCalls == 2
\* the most `*` after the type name of a sizeof drawn as an input
MaxStars == 2
\* words of the code buffer e (vec![0; 256*1024] in the program)
CodeSize == 40
\* bytes of the data segment (vec![0; 256*1024] in the program)
DataSize == 24

(***************************************************************************)
(* enum TokenType, enum OpCode, enum Type.                                 *)
(* The variants of OpCode are numbered in the order the enum lists them;   *)
(* the second and fifth variant are what the code calls OpCode::IMM and    *)
(* OpCode::BZ.                                                             *)
(***************************************************************************)
TokenType ==
  [Num |-> 128, Fun |-> 129, Sys |-> 130, Glo |-> 131, Loc |-> 132,
   Id |-> 133, Char |-> 134, Else |-> 135, Enum |-> 136, If |-> 137,
   Int |-> 138, Return |-> 139, Sizeof |-> 140, While |-> 141,
   Assign |-> 142, Cond |-> 143, Lor |-> 144, Lan |-> 145, Or |-> 146,
   Xor |-> 147, And |-> 148, Eq |-> 149, Ne |-> 150, Lt |-> 151,
   Gt |-> 152, Le |-> 153, Ge |-> 154, Shl |-> 155, Shr |-> 156,
   Add |-> 157, Sub |-> 158, Mul |-> 159, Div |-> 160, Mod |-> 161,
   Inc |-> 162, Dec |-> 163, Brak |-> 164]

OpCode ==
  [LEA |-> 0, IMM |-> 1, JMP |-> 2, JSR |-> 3, BZ |-> 4, ENT |-> 5,
   ADJ |-> 6, LEV |-> 7, LI |-> 8, LC |-> 9, SI |-> 10, SC |-> 11,
   PSH |-> 12, OR |-> 13, XOR |-> 14, AND |-> 15, EQ |-> 16, NE |-> 17,
   LT |-> 18, GT |-> 19, LE |-> 20, GE |-> 21, SHL |-> 22, SHR |-> 23,
   ADD |-> 24, SUB |-> 25, MUL |-> 26, DIV |-> 27, MOD |-> 28,
   OPEN |-> 29, READ |-> 30, CLOS |-> 31, PRTF |-> 32, MALC |-> 33,
   FREE |-> 34, MSET |-> 35, MCMP |-> 36, EXIT |-> 37, FUN |-> 38]

Type == [CHAR |-> 0, INT |-> 1, PTR |-> 2]

\* std::mem::size_of::<Int>() with type Int = i64
WordSize == 8

(***************************************************************************)
(* Characters.  Printable lists the characters of codes 32 to 126 in       *)
(* order (GRAVE stands for the grave accent, code 96).                     *)
(***************************************************************************)
Printable ==
  <<" ", "!", "\"", "#", "$", "%", "&", "'", "(", ")", "*", "+", ",", "-",
    ".", "/", "0", "1", "2", "3", "4", "5", "6", "7", "8", "9", ":", ";",
    "<", "=", ">", "?", "@", "A", "B", "C", "D", "E", "F", "G", "H", "I",
    "J", "K", "L", "M", "N", "O", "P", "Q", "R", "S", "T", "U", "V", "W",
    "X", "Y", "Z", "[", "\\", "]", "^", "_", "GRAVE", "a", "b", "c", "d", "e",
    "f", "g", "h", "i", "j", "k", "l", "m", "n", "o", "p", "q", "r", "s",
    "t", "u", "v", "w", "x", "y", "z", "{", "|", "}", "~">>

\* the NUL character, which current_char returns past the end of the source
NUL == ""

\* `ch as i32` for an ASCII character
Ord(ch) ==
  IF ch = NUL THEN 0
  ELSE IF ch = "\t" THEN 9
  ELSE IF ch = "\n" THEN 10
  ELSE IF ch = "\r" THEN 13
  ELSE 31 + (CHOOSE i \in 1..Len(Printable) : Printable[i] = ch)

\* char::is_alphabetic, char::is_whitespace, char::is_digit(radix) on ASCII
IsAlphabetic(ch) == ch # NUL /\ Ord(ch) \in (65..90) \cup (97..122)
IsWhitespace(ch) == ch \in {" ", "\t", "\n", "\r"}
IsDigit10(ch) == ch # NUL /\ Ord(ch) \in 48..57
IsDigit8(ch) == ch # NUL /\ Ord(ch) \in 48..55
IsDigit16(ch) == ch # NUL /\ Ord(ch) \in (48..57) \cup (97..102) \cup (65..70)

\* the value of a hexadecimal digit of code n, as the three-way test of next()
\* computes it
HexCodeVal(n) ==
  IF n \in 48..57 THEN n - 48
  ELSE IF n >= 97 /\ n <= 102 THEN (n - 97) + 10
  ELSE (n - 65) + 10

HexDigitVal(ch) == HexCodeVal(Ord(ch))

(***************************************************************************)
(* The identifier hash, an i32 with wrapping arithmetic.  The 32-bit       *)
(* pattern is kept as its two 16-bit halves <<hi, lo>>.                    *)
(***************************************************************************)
Half == 256 * 256

\* h.wrapping_mul(m).wrapping_add(a) on the two halves
WrappingMulAdd(h, m, a) ==
  LET lo == h[2] * m + a
      hi == h[1] * m + (lo \div Half)
  IN  <<hi % Half, lo % Half>>

\* hash.wrapping_mul(147).wrapping_add(ch as i32)
HashStep(h, ch) == WrappingMulAdd(h, 147, Ord(ch))

\* (hash << 6).wrapping_add(len as i32)
HashFinish(h, len) == WrappingMulAdd(h, 64, len)

RECURSIVE HashChars(_, _, _)
HashChars(h, name, i) ==
  IF i > Len(name) THEN h ELSE HashChars(HashStep(h, name[i]), name, i + 1)

\* the hash add_keyword, add_syscall and compile compute for a whole name
HashOf(name) == HashFinish(HashChars(<<0, 0>>, name, 1), Len(name))

(***************************************************************************)
(* struct Symbol and the symbol table.                                     *)
(***************************************************************************)
Symbol(token, hash, name, class, type_, value) ==
  [token |-> token, hash |-> hash, name |-> name, class |-> class,
   type_ |-> type_, value |-> value, h_class |-> 0, h_type |-> 0, h_val |-> 0]

add_keyword(c, name, token) ==
  [c EXCEPT !.symbols = Append(@, Symbol(token, HashOf(name), name, 0, 0, 0))]

add_syscall(c, name, code) ==
  [c EXCEPT !.symbols =
     Append(@, Symbol(TokenType.Id, HashOf(name), name, TokenType.Sys, Type.INT, code))]

Keywords ==
  << << <<"c","h","a","r">>, TokenType.Char >>,
     << <<"e","l","s","e">>, TokenType.Else >>,
     << <<"e","n","u","m">>, TokenType.Enum >>,
     << <<"i","f">>, TokenType.If >>,
     << <<"i","n","t">>, TokenType.Int >>,
     << <<"r","e","t","u","r","n">>, TokenType.Return >>,
     << <<"s","i","z","e","o","f">>, TokenType.Sizeof >>,
     << <<"w","h","i","l","e">>, TokenType.While >> >>

Syscalls ==
  << << <<"o","p","e","n">>, OpCode.OPEN >>,
     << <<"r","e","a","d">>, OpCode.READ >>,
     << <<"c","l","o","s","e">>, OpCode.CLOS >>,
     << <<"p","r","i","n","t","f">>, OpCode.PRTF >>,
     << <<"m","a","l","l","o","c">>, OpCode.MALC >>,
     << <<"f","r","e","e">>, OpCode.FREE >>,
     << <<"m","e","m","s","e","t">>, OpCode.MSET >>,
     << <<"m","e","m","c","m","p">>, OpCode.MCMP >>,
     << <<"e","x","i","t">>, OpCode.EXIT >> >>

RECURSIVE AddKeywords(_, _)
AddKeywords(c, i) ==
  IF i > Len(Keywords) THEN c
  ELSE AddKeywords(add_keyword(c, Keywords[i][1], Keywords[i][2]), i + 1)

RECURSIVE AddSyscalls(_, _)
AddSyscalls(c, i) ==
  IF i > Len(Syscalls) THEN c
  ELSE AddSyscalls(add_syscall(c, Syscalls[i][1], Syscalls[i][2]), i + 1)

init_symbol_table(c) ==
  add_keyword(AddSyscalls(AddKeywords(c, 1), 1), <<"v","o","i","d">>, TokenType.Char)

\* the index (from 0) of the first symbol with this hash and name, or -1 for None
RECURSIVE FindFrom(_, _, _, _)
FindFrom(symbols, hash, name, i) ==
  IF i > Len(symbols) THEN -1
  ELSE IF symbols[i].hash = hash /\ symbols[i].name = name THEN i - 1
  ELSE FindFrom(symbols, hash, name, i + 1)

find_symbol(c, hash, name) == FindFrom(c.symbols, hash, name, 1)

(***************************************************************************)
(* C4::new                                                                 *)
(***************************************************************************)
new ==
  [p |-> 0, lp |-> 0, source |-> <<>>, e |-> [i \in 0..(CodeSize - 1) |-> 0],
   le |-> 0, symbols |-> <<>>, token |-> 0, token_val |-> 0, type_ |-> 0,
   loc |-> 0, line |-> 1, data |-> [i \in 0..(DataSize - 1) |-> 0],
   data_index |-> 0, id |-> 0]

current_char(c) == IF c.p < Len(c.source) THEN c.source[c.p + 1] ELSE NUL

\* &self.source[from..to]
Slice(c, from, to) == SubSeq(c.source, from + 1, to)

(***************************************************************************)
(* C4::next, the lexer.  (The -s source listing and the println! traces    *)
(* write to standard output only and are left out.)  Each step of next()   *)
(* is an operator applied to the compiler the step before it left.         *)
(***************************************************************************)
\* the loop that skips newlines (counting lines) and other whitespace
RECURSIVE SkipWhitespace(_)
SkipWhitespace(c) ==
  IF c.p < Len(c.source)
  THEN LET ch == current_char(c)
       IN  IF ch = "\n"
           THEN SkipWhitespace([c EXCEPT !.line = @ + 1, !.lp = c.p + 1, !.p = @ + 1])
           ELSE IF IsWhitespace(ch)
           THEN SkipWhitespace([c EXCEPT !.p = @ + 1])
           ELSE c
  ELSE c

\* (mutant) the stored hash is taken before the length is added in
NewIdSymbol_RawHash(hash, name) ==
  Symbol(TokenType.Id, <<hash[1], (hash[2] \div 64) * 64>>, name, 0, 0, 0)

\* the symbol next() pushes for an identifier it has not seen
NewIdSymbol(hash, name) == Symbol(TokenType.Id, hash, name, 0, 0, 0)

\* (mutant) the symbol is pushed without looking the name up
Intern_AlwaysPush(c, hash, name) ==
  [c EXCEPT !.id = Len(c.symbols),
            !.symbols = Append(@, NewIdSymbol(hash, name)),
            !.token = TokenType.Id]

\* find_symbol(hash, name): the token and id of the symbol found, or of the
\* symbol pushed
Intern(c, hash, name) ==
  LET idx == find_symbol(c, hash, name)
  IN  IF idx >= 0
      THEN [c EXCEPT !.token = c.symbols[idx + 1].token, !.id = idx]
      ELSE [c EXCEPT !.id = Len(c.symbols),
                     !.symbols = Append(@, NewIdSymbol(hash, name)),
                     !.token = TokenType.Id]

\* the loop collecting the characters of an identifier that starts at `start`,
\* then the hash with the length shifted in, the name and the lookup
RECURSIVE ScanIdentifier(_, _, _)
ScanIdentifier(c, start, hash) ==
  IF c.p < Len(c.source) /\ (IsAlphabetic(current_char(c)) \/ current_char(c) = "_")
  THEN ScanIdentifier([c EXCEPT !.p = @ + 1], start, HashStep(hash, current_char(c)))
  ELSE Intern(c, HashFinish(hash, c.p - start), Slice(c, start, c.p))

LexIdentifier(c) ==
  ScanIdentifier([c EXCEPT !.p = @ + 1], c.p, <<0, Ord(current_char(c))>>)

IsDigitOf(ch, radix) ==
  IF radix = 16 THEN IsDigit16(ch) ELSE IF radix = 8 THEN IsDigit8(ch) ELSE IsDigit10(ch)

\* (mutant) every digit is valued as a decimal digit
DigitVal_Decimal(ch, radix) == Ord(ch) - 48

DigitVal(ch, radix) == IF radix = 16 THEN HexDigitVal(ch) ELSE Ord(ch) - 48

\* the three digit loops of next(): token_val = token_val * radix + digit
RECURSIVE ScanDigits(_, _)
ScanDigits(c, radix) ==
  IF c.p < Len(c.source) /\ IsDigitOf(current_char(c), radix)
  THEN ScanDigits([c EXCEPT !.token_val = @ * radix + DigitVal(current_char(c), radix),
                            !.p = @ + 1], radix)
  ELSE c

\* after the first digit: the hexadecimal, octal or decimal digits that follow
NumberTail(c, is_zero) ==
  IF is_zero /\ c.p < Len(c.source)
  THEN LET next_ch == current_char(c)
       IN  IF next_ch \in {"x", "X"}
           THEN ScanDigits([c EXCEPT !.p = @ + 1, !.token_val = 0], 16)
           ELSE IF IsDigit8(next_ch)
           THEN ScanDigits(c, 8)
           ELSE c
  ELSE IF ~is_zero
  THEN ScanDigits(c, 10)
  ELSE c

LexNumber(c) ==
  [NumberTail([c EXCEPT !.token_val = Ord(current_char(c)) - 48, !.p = @ + 1],
              current_char(c) = "0")
     EXCEPT !.token = TokenType.Num]

\* (n + size_of::<Int>() - 1) & !(size_of::<Int>() - 1)
AlignWord(n) == ((n + WordSize - 1) \div WordSize) * WordSize

\* the loop over the content of a string or character literal
RECURSIVE ScanLiteral(_, _)
ScanLiteral(c, string_type) ==
  IF c.p < Len(c.source) /\ current_char(c) # string_type
  THEN LET val0 == Ord(current_char(c))
           c1   == [c EXCEPT !.p = @ + 1]
           esc  == val0 = Ord("\\") /\ c1.p < Len(c1.source)
           val1 == IF esc THEN Ord(current_char(c1)) ELSE val0
           c2   == IF esc THEN [c1 EXCEPT !.p = @ + 1] ELSE c1
           val  == IF esc /\ val1 = Ord("n") THEN Ord("\n") ELSE val1
       IN  ScanLiteral(IF string_type = "\""
                       THEN [c2 EXCEPT !.data[c2.data_index] = val % 256,
                                       !.data_index = @ + 1]
                       ELSE c2,
                       string_type)
  ELSE c

\* after the content: the closing quote, then token_val or token
EndLiteral(c, string_type, data_start) ==
  LET c1 == IF c.p < Len(c.source) THEN [c EXCEPT !.p = @ + 1] ELSE c
  IN  IF string_type = "\""
      THEN [c1 EXCEPT !.token_val = data_start, !.data_index = AlignWord(@)]
      ELSE [c1 EXCEPT !.token = TokenType.Num]

LexLiteral(c) ==
  EndLiteral(ScanLiteral([c EXCEPT !.p = @ + 1], current_char(c)),
             current_char(c), c.data_index)

\* skip to the end of the line (the loops of the // and # arms)
RECURSIVE SkipLine(_)
SkipLine(c) ==
  IF c.p < Len(c.source) /\ current_char(c) # "\n"
  THEN SkipLine([c EXCEPT !.p = @ + 1])
  ELSE c

\* (mutant) an operator arm that never looks at the character that follows
OneOrTwo_NoLookahead(c, second, two, one) == [c EXCEPT !.p = @ + 1, !.token = one]

\* an operator arm: one character, or two when `second` follows
OneOrTwo(c, second, two, one) ==
  LET c1 == [c EXCEPT !.p = @ + 1]
  IN  IF current_char(c1) = second
      THEN [c1 EXCEPT !.p = @ + 1, !.token = two]
      ELSE [c1 EXCEPT !.token = one]

\* the arms for < and >, which have two two-character forms
OneOrTwoOrShift(c, shift, orEqual, shifted, one) ==
  LET c1 == [c EXCEPT !.p = @ + 1]
  IN  IF current_char(c1) = "="
      THEN [c1 EXCEPT !.p = @ + 1, !.token = orEqual]
      ELSE IF current_char(c1) = shift
      THEN [c1 EXCEPT !.p = @ + 1, !.token = shifted]
      ELSE [c1 EXCEPT !.token = one]

\* (mutant) a one-character token that is not consumed
Single_NoAdvance(c, token) == [c EXCEPT !.token = token]

Single(c, token) == [c EXCEPT !.p = @ + 1, !.token = token]

RECURSIVE next(_)

\* the `/` arm: a line comment, or the division operator
LexSlash(c) ==
  IF current_char(c) = "/"
  THEN next(SkipLine([c EXCEPT !.p = @ + 1]))
  ELSE [c EXCEPT !.token = TokenType.Div]

\* the match on the current character
LexOperator(c) ==
  LET ch == current_char(c)
  IN  CASE ch = "/" -> LexSlash([c EXCEPT !.p = @ + 1])
        [] ch = "=" -> OneOrTwo(c, "=", TokenType.Eq, TokenType.Assign)
        [] ch = "+" -> OneOrTwo(c, "+", TokenType.Inc, TokenType.Add)
        [] ch = "-" -> OneOrTwo(c, "-", TokenType.Dec, TokenType.Sub)
        [] ch = "!" -> OneOrTwo(c, "=", TokenType.Ne, Ord("!"))
        [] ch = "<" -> OneOrTwoOrShift(c, "<", TokenType.Le, TokenType.Shl, TokenType.Lt)
        [] ch = ">" -> OneOrTwoOrShift(c, ">", TokenType.Ge, TokenType.Shr, TokenType.Gt)
        [] ch = "|" -> OneOrTwo(c, "|", TokenType.Lor, TokenType.Or)
        [] ch = "&" -> OneOrTwo(c, "&", TokenType.Lan, TokenType.And)
        [] ch = "^" -> Single(c, TokenType.Xor)
        [] ch = "%" -> Single(c, TokenType.Mod)
        [] ch = "*" -> Single(c, TokenType.Mul)
        [] ch = "[" -> Single(c, TokenType.Brak)
        [] ch = "?" -> Single(c, TokenType.Cond)
        [] ch = "#" -> next(SkipLine([c EXCEPT !.p = @ + 1]))
        [] OTHER -> Single(c, Ord(ch))

\* after the whitespace: end of source, or the token the next character starts
LexToken(c) ==
  IF c.p >= Len(c.source) THEN c
  ELSE LET ch == current_char(c)
       IN  IF IsAlphabetic(ch) \/ ch = "_" THEN LexIdentifier(c)
           ELSE IF IsDigit10(ch) THEN LexNumber(c)
           ELSE IF ch \in {"\"", "'"} THEN LexLiteral(c)
           ELSE LexOperator(c)

next(c) == LexToken(SkipWhitespace([c EXCEPT !.token = 0]))

(***************************************************************************)
(* Code emission and Result<(), String>.                                   *)
(* A result is [c, ok, err]: the compiler after the call, whether the call *)
(* returned Ok, and for Err the message as <<line, text, ...>> (what       *)
(* format!("{}: text", self.line) builds).                                 *)
(***************************************************************************)
emit(c, op) == [c EXCEPT !.le = @ + 1, !.e[c.le + 1] = op]

emit_with_operand(c, op, operand) ==
  LET c1 == emit(c, op)
  IN  [c1 EXCEPT !.le = @ + 1, !.e[c1.le + 1] = operand]

Ok(c) == [c |-> c, ok |-> TRUE, err |-> <<>>]
Err(c, text) == [c |-> c, ok |-> FALSE, err |-> <<c.line, text>>]
\* format!("{}: text: {}", self.line, e) of a caller wrapping the error e
Wrap(r, text) == [c |-> r.c, ok |-> FALSE, err |-> <<r.c.line, text>> \o r.err]

\* emit LC for a char, LI otherwise
EmitLoad(c) == IF c.type_ = Type.CHAR THEN emit(c, OpCode.LC) ELSE emit(c, OpCode.LI)

IsLoad(c) == c.e[c.le] = OpCode.LC \/ c.e[c.le] = OpCode.LI

\* if self.token == token { self.next() }
SkipToken(c, token) == IF c.token = token THEN next(c) ELSE c

\* the if/else-if chain from a binary operator token to its opcode; -1: none
BinaryOp(token) ==
  CASE token = TokenType.Add -> OpCode.ADD
    [] token = TokenType.Sub -> OpCode.SUB
    [] token = TokenType.Mul -> OpCode.MUL
    [] token = TokenType.Div -> OpCode.DIV
    [] token = TokenType.Mod -> OpCode.MOD
    [] token = TokenType.And -> OpCode.AND
    [] token = TokenType.Or  -> OpCode.OR
    [] token = TokenType.Xor -> OpCode.XOR
    [] token = TokenType.Eq  -> OpCode.EQ
    [] token = TokenType.Ne  -> OpCode.NE
    [] token = TokenType.Lt  -> OpCode.LT
    [] token = TokenType.Gt  -> OpCode.GT
    [] token = TokenType.Le  -> OpCode.LE
    [] token = TokenType.Ge  -> OpCode.GE
    [] token = TokenType.Shl -> OpCode.SHL
    [] token = TokenType.Shr -> OpCode.SHR
    [] OTHER -> -1

(***************************************************************************)
(* C4::expr.  Each branch of the primary expression is a chain of          *)
(* operators, one per step of the branch, each applied to the compiler (or *)
(* the result of the nested expr call) the step before it left; a `?` or   *)
(* a `return Err` ends the chain with that error.                          *)
(***************************************************************************)
RECURSIVE expr(_, _)

\* numeric literal
\* (mutant) the literal's value is not written after IMM
ExprNum_NoOperand(c) ==
  Ok([next(emit(c, OpCode.IMM)) EXCEPT !.type_ = Type.INT])

ExprNum(c) ==
  Ok([next(emit_with_operand(c, OpCode.IMM, c.token_val)) EXCEPT !.type_ = Type.INT])

\* while self.token == '"' { next() }
RECURSIVE SkipStrings(_)
SkipStrings(c) == IF c.token = Ord("\"") THEN SkipStrings(next(c)) ELSE c

\* string literal
ExprString(c) ==
  Ok([SkipStrings(next(emit_with_operand(c, OpCode.IMM, c.token_val)))
        EXCEPT !.data_index = AlignWord(@), !.type_ = Type.PTR])

\* sizeof ( type ), last step first: the size is emitted
SizeofEmit(c) ==
  Ok([emit_with_operand(c, OpCode.IMM, IF c.type_ = Type.CHAR THEN 1 ELSE WordSize)
        EXCEPT !.type_ = Type.INT])

SizeofClose(c) ==
  IF c.token # Ord(")") THEN Err(c, "close paren expected in sizeof")
  ELSE SizeofEmit(next(c))

\* (mutant) the size of the pointee: the `*` after the type name do not count
RECURSIVE SizeofStars_Pointee(_)
SizeofStars_Pointee(c) ==
  IF c.token = TokenType.Mul THEN SizeofStars_Pointee(next(c)) ELSE c

\* while self.token == '*' { next(); self.type_ += PTR }
RECURSIVE SizeofStars(_)
SizeofStars(c) ==
  IF c.token = TokenType.Mul
  THEN SizeofStars([next(c) EXCEPT !.type_ = @ + Type.PTR])
  ELSE c

\* the type name: int, char, or none
SizeofType(c) ==
  IF c.token = TokenType.Int THEN next(c)
  ELSE IF c.token = TokenType.Char THEN [next(c) EXCEPT !.type_ = Type.CHAR]
  ELSE c

SizeofOpen(c) ==
  IF c.token # Ord("(") THEN Err(c, "open paren expected in sizeof")
  ELSE SizeofClose(SizeofStars(SizeofType([next(c) EXCEPT !.type_ = Type.INT])))

ExprSizeof(c) == SizeofOpen(next(c))

\* identifier ( args ): after the closing paren, the call is emitted
CallEmit(c, id_idx, arg_count) ==
  LET sym == c.symbols[id_idx + 1]
      c1  == IF sym.class = TokenType.Sys
             THEN emit_with_operand(c, OpCode.IMM, sym.value)
             ELSE emit_with_operand(c, OpCode.JSR, sym.value)
      c2  == IF arg_count > 0
             THEN emit_with_operand(c1, OpCode.ADJ, arg_count)
             ELSE c1
  IN  IF sym.class # TokenType.Sys /\ sym.class # TokenType.Fun
      THEN Err(c, "bad function call")
      ELSE Ok([c2 EXCEPT !.type_ = sym.type_])

\* the argument loop of a call: [r, arg_count]
RECURSIVE ExprArgs(_, _)

\* one argument compiled: PSH, the count, a comma skipped
ExprArg(r, arg_count) ==
  IF ~r.ok THEN [r |-> r, arg_count |-> arg_count]
  ELSE ExprArgs(SkipToken(emit(r.c, OpCode.PSH), Ord(",")), arg_count + 1)

ExprArgs(c, arg_count) ==
  IF c.token = Ord(")") THEN [r |-> Ok(c), arg_count |-> arg_count]
  ELSE ExprArg(expr(c, TokenType.Assign), arg_count)

CallClose(a, id_idx) ==
  IF ~a.r.ok THEN a.r ELSE CallEmit(next(a.r.c), id_idx, a.arg_count)

ExprCall(c, id_idx) == CallClose(ExprArgs(next(c), 0), id_idx)

\* a variable: the address load, then the value load
ExprVariable(c, id_idx) ==
  LET sym == c.symbols[id_idx + 1]
  IN  IF sym.class = TokenType.Loc
      THEN Ok(EmitLoad([emit_with_operand(c, OpCode.LEA, c.loc - sym.value)
                          EXCEPT !.type_ = sym.type_]))
      ELSE IF sym.class = TokenType.Glo
      THEN Ok(EmitLoad([emit_with_operand(c, OpCode.IMM, sym.value)
                          EXCEPT !.type_ = sym.type_]))
      ELSE Err(c, "undefined variable")

\* after the identifier: a call, an enum constant or a variable
IdTail(c, id_idx) ==
  IF c.token = Ord("(") THEN ExprCall(c, id_idx)
  ELSE IF c.symbols[id_idx + 1].class = TokenType.Num
  THEN Ok([emit_with_operand(c, OpCode.IMM, c.symbols[id_idx + 1].value)
             EXCEPT !.type_ = Type.INT])
  ELSE ExprVariable(c, id_idx)

ExprId(c) == IdTail(next(c), c.id)

\* while self.token == '*' { next(); t += PTR }: <<c, t>>
RECURSIVE SkipStars(_, _)
SkipStars(c, t) ==
  IF c.token = TokenType.Mul THEN SkipStars(next(c), t + Type.PTR) ELSE <<c, t>>

\* ( type ) expr: the operand compiled, the type is the cast's
CastOperand(r, t) == IF ~r.ok THEN r ELSE Ok([r.c EXCEPT !.type_ = t])

CastClose(st) ==
  IF st[1].token # Ord(")") THEN Err(st[1], "bad cast")
  ELSE CastOperand(expr(next(st[1]), TokenType.Inc), st[2])

ExprCast(c) ==
  CastClose(SkipStars(next(c), IF c.token = TokenType.Int THEN Type.INT ELSE Type.CHAR))

\* ( expr ): the closing paren
ParenClose(r) ==
  IF ~r.ok THEN r
  ELSE IF r.c.token = Ord(")") THEN Ok(next(r.c))
  ELSE Err(r.c, "close paren expected")

ParenTail(c) ==
  IF c.token = TokenType.Int \/ c.token = TokenType.Char
  THEN ExprCast(c)
  ELSE ParenClose(expr(c, TokenType.Assign))

ExprParen(c) == ParenTail(next(c))

\* * expr
DerefOperand(r) ==
  IF ~r.ok THEN r
  ELSE IF r.c.type_ >= Type.PTR
  THEN Ok(EmitLoad([r.c EXCEPT !.type_ = @ - Type.PTR]))
  ELSE Err(r.c, "bad dereference")

ExprDeref(c) == DerefOperand(expr(next(c), TokenType.Inc))

\* & expr
\* (mutant) the trailing load is kept: the cursor is not moved back
AddressOfOperand_KeepsLoad(r) ==
  IF ~r.ok THEN r
  ELSE IF IsLoad(r.c)
  THEN Ok([r.c EXCEPT !.type_ = @ + Type.PTR])
  ELSE Err(r.c, "bad address-of")

AddressOfOperand(r) ==
  IF ~r.ok THEN r
  ELSE IF IsLoad(r.c)
  THEN Ok([r.c EXCEPT !.le = @ - 1, !.type_ = @ + Type.PTR])
  ELSE Err(r.c, "bad address-of")

ExprAddressOf(c) == AddressOfOperand(expr(next(c), TokenType.Inc))

\* ! expr  and  ~ expr: the operand, PSH, IMM operand, op
NotOrComplementOperand(r, operand, op) ==
  IF ~r.ok THEN r
  ELSE Ok([emit(emit_with_operand(emit(r.c, OpCode.PSH), OpCode.IMM, operand), op)
             EXCEPT !.type_ = Type.INT])

ExprNotOrComplement(c, operand, op) ==
  NotOrComplementOperand(expr(next(c), TokenType.Inc), operand, op)

\* + expr
PlusOperand(r) == IF ~r.ok THEN r ELSE Ok([r.c EXCEPT !.type_ = Type.INT])

ExprPlus(c) == PlusOperand(expr(next(c), TokenType.Inc))

\* - expr
MinusOperand(r) ==
  IF ~r.ok THEN r ELSE Ok([emit(r.c, OpCode.MUL) EXCEPT !.type_ = Type.INT])

\* after IMM 0: a literal is negated in place, anything else multiplied by -1
MinusTail(c) ==
  IF c.token = TokenType.Num
  THEN Ok([next(emit_with_operand(c, OpCode.IMM, -c.token_val))
             EXCEPT !.type_ = Type.INT])
  ELSE MinusOperand(expr(emit(emit_with_operand(c, OpCode.IMM, -1), OpCode.PSH),
                         TokenType.Inc))

ExprMinus(c) == MinusTail(emit_with_operand(next(c), OpCode.IMM, 0))

\* ++ expr  and  -- expr
PreIncDecOperand(r, op) ==
  IF ~r.ok THEN r
  ELSE IF ~IsLoad(r.c) THEN Err(r.c, "bad lvalue in pre-increment")
  ELSE
    LET load == r.c.e[r.c.le]
        c1 == emit([r.c EXCEPT !.e[r.c.le] = OpCode.PSH], load)
        c2 == emit(c1, OpCode.PSH)
        c3 == emit_with_operand(c2, OpCode.IMM,
                                IF r.c.type_ > Type.PTR THEN WordSize ELSE 1)
        c4 == IF op = TokenType.Inc THEN emit(c3, OpCode.ADD) ELSE emit(c3, OpCode.SUB)
    IN  Ok(IF r.c.type_ = Type.CHAR THEN emit(c4, OpCode.SC) ELSE emit(c4, OpCode.SI))

ExprPreIncDec(c) == PreIncDecOperand(expr(next(c), TokenType.Inc), c.token)

\* the primary expression, by the current token
ExprPrimary(c) ==
  CASE c.token = TokenType.Num    -> ExprNum(c)
    [] c.token = Ord("\"")        -> ExprString(c)
    [] c.token = TokenType.Sizeof -> ExprSizeof(c)
    [] c.token = TokenType.Id     -> ExprId(c)
    [] c.token = Ord("(")         -> ExprParen(c)
    [] c.token = TokenType.Mul    -> ExprDeref(c)
    [] c.token = TokenType.And    -> ExprAddressOf(c)
    [] c.token = Ord("!")         -> ExprNotOrComplement(c, 0, OpCode.EQ)
    [] c.token = Ord("~")         -> ExprNotOrComplement(c, -1, OpCode.XOR)
    [] c.token = TokenType.Add    -> ExprPlus(c)
    [] c.token = TokenType.Sub    -> ExprMinus(c)
    [] c.token \in {TokenType.Inc, TokenType.Dec} -> ExprPreIncDec(c)
    [] OTHER -> Err(c, "bad expression")

\* the loop over binary operators: while self.token >= level
RECURSIVE ExprBinary(_, _)

\* the Assign arm, after next(): the load of the lvalue becomes PSH
BinaryAssign(c, level) ==
  IF IsLoad(c)
  THEN ExprBinary([c EXCEPT !.e[c.le] = OpCode.PSH], level)
  ELSE Err(c, "bad lvalue in assignment")

\* the right-hand side compiled: the operator of the current token is emitted
\* again and the type saved in t comes back
BinaryRhs(r, t, level) ==
  IF ~r.ok THEN r
  ELSE IF BinaryOp(r.c.token) = -1 THEN Err(r.c, "bad operator")
  ELSE ExprBinary([emit(r.c, BinaryOp(r.c.token)) EXCEPT !.type_ = t], level)

ExprBinary(c, level) ==
  IF c.token < level THEN Ok(c)
  ELSE IF c.token = TokenType.Assign THEN BinaryAssign(next(c), level)
  ELSE IF BinaryOp(c.token) = -1 THEN Err(c, "bad operator")
  ELSE BinaryRhs(expr(next(emit(c, BinaryOp(c.token))), level - 1), c.type_, level)

\* the statement that ends expr: self.type_ = save_type
RestoreType(c, save_type) == [c EXCEPT !.type_ = save_type]

\* the binary operator loop done
ExprEnd(r, save_type) == IF ~r.ok THEN r ELSE Ok(RestoreType(r.c, save_type))

\* the primary expression done
ExprOperators(r, level, save_type) ==
  IF ~r.ok THEN r ELSE ExprEnd(ExprBinary(r.c, level), save_type)

expr(c, level) ==
  IF c.token = 0 THEN Err(c, "unexpected end of file in expression")
  ELSE ExprOperators(ExprPrimary(c), level, c.type_)

(***************************************************************************)
(* The statement compilers, written the same way.                          *)
(***************************************************************************)
\* format!("Error in return expression: {}", e): no line number in front
WrapBare(r, text) == [c |-> r.c, ok |-> FALSE, err |-> <<text>> \o r.err]

\* the statement loop of compile_block
RECURSIVE BlockLoop(_)

\* a return statement of the block, its expression compiled
BlockReturnEnd(r) ==
  IF ~r.ok THEN WrapBare(r, "Error in return expression")
  ELSE BlockLoop(emit(SkipToken(r.c, Ord(";")), OpCode.LEV))

BlockReturn(c) ==
  BlockReturnEnd(IF c.token # Ord(";") THEN expr(c, TokenType.Assign) ELSE Ok(c))

BlockLoop(c) ==
  IF c.token = Ord("}") \/ c.token = 0 THEN Ok(c)
  ELSE IF c.token = TokenType.Return THEN BlockReturn(next(c))
  ELSE BlockLoop(next(c))

\* the closing brace of the block
BlockClose(r) ==
  IF ~r.ok THEN r
  ELSE IF r.c.token = Ord("}") THEN Ok(next(r.c)) ELSE r

compile_block(c) == BlockClose(BlockLoop(SkipToken(c, Ord("{"))))

\* the word compile_if_statement and compile_while_statement write back into
\* e[jump_address] once the block is compiled
PatchTarget(c) == c.le

\* the else-block compiled
IfElseBlock(b, jump_address) ==
  IF ~b.ok THEN Wrap(b, "error in then block")
  ELSE Ok([b.c EXCEPT !.e[jump_address] = PatchTarget(b.c)])

\* the then-block compiled
IfThenBlock(b, jump_address) ==
  IF ~b.ok THEN Wrap(b, "error in then block")
  ELSE IF b.c.token = TokenType.Else
  THEN IfElseBlock(
         compile_block(emit_with_operand(emit(next(b.c), OpCode.JMP), OpCode.IMM, 0)),
         jump_address)
  ELSE Ok([b.c EXCEPT !.e[jump_address] = PatchTarget(b.c)])

\* the condition compiled
IfCondition(r) ==
  IF ~r.ok THEN Wrap(r, "error in if condition")
  ELSE IF r.c.type_ # Type.INT THEN Err(r.c, "if condition must be of type int")
  ELSE IfThenBlock(
         compile_block(emit_with_operand(emit(r.c, OpCode.BZ), OpCode.IMM, 0)),
         r.c.le + 1)

IfOpen(c) ==
  IF c.token # Ord("(") THEN Err(c, "open paren expected in if statement")
  ELSE IfCondition(expr(next(c), TokenType.Assign))

compile_if_statement(c) == IfOpen(next(c))

\* the end of the loop: JMP, IMM loop_address, then e[loop_address] = le
WhileEnd(c, loop_address) == [c EXCEPT !.e[loop_address] = PatchTarget(c)]

\* the body compiled
WhileBody(b, loop_address) ==
  IF ~b.ok THEN Wrap(b, "error in while body")
  ELSE Ok(WhileEnd(emit_with_operand(emit(b.c, OpCode.JMP), OpCode.IMM, loop_address),
                   loop_address))

\* the condition compiled
WhileCondition(r) ==
  IF ~r.ok THEN Wrap(r, "error in while condition")
  ELSE IF r.c.type_ # Type.INT THEN Err(r.c, "while condition must be of type int")
  ELSE WhileBody(
         compile_block(emit_with_operand(emit(r.c, OpCode.BZ), OpCode.IMM, 0)),
         r.c.le + 1)

WhileOpen(c) ==
  IF c.token # Ord("(") THEN Err(c, "open paren expected in while statement")
  ELSE WhileCondition(expr(next(c), TokenType.Assign))

compile_while_statement(c) == WhileOpen(next(c))

\* the return expression compiled
ReturnExpression(r) ==
  IF ~r.ok THEN Wrap(r, "error in return expression")
  ELSE IF r.c.type_ # Type.INT THEN Err(r.c, "return type must be int")
  ELSE Ok(emit(r.c, OpCode.LEV))

ReturnTail(c) ==
  IF c.token # Ord(";")
  THEN ReturnExpression(expr(c, TokenType.Assign))
  ELSE Ok(emit(c, OpCode.LEV))

compile_return_statement(c) == ReturnTail(next(c))

\* the body compiled: FUN, IMM return_type, IMM loc
FunctionBlock(b, return_type) ==
  IF ~b.ok THEN Wrap(b, "error in function body")
  ELSE Ok(emit_with_operand(
            emit_with_operand(emit(b.c, OpCode.FUN), OpCode.IMM, return_type),
            OpCode.IMM, b.c.loc))

FunctionReturnType(c) ==
  IF c.token # TokenType.Char THEN Err(c, "return type expected")
  ELSE FunctionBlock(compile_block(next(c)), c.token_val)

FunctionName(c) ==
  IF c.token # TokenType.Id THEN Err(c, "function name expected")
  ELSE FunctionReturnType(next(c))

compile_function_definition(c) == FunctionName(next(c))

\* the right-hand side compiled: the address of the variable, then SI
AssignmentExpression(r, id_idx) ==
  IF ~r.ok THEN Wrap(r, "error in assignment expression")
  ELSE IF r.c.type_ # Type.INT THEN Err(r.c, "assignment type must be int")
  ELSE LET sym == r.c.symbols[id_idx + 1]
           c1  == IF sym.class = TokenType.Loc
                  THEN emit_with_operand(r.c, OpCode.LEA, r.c.loc - sym.value)
                  ELSE emit_with_operand(r.c, OpCode.IMM, sym.value)
       IN  IF sym.class # TokenType.Loc /\ sym.class # TokenType.Glo
           THEN Err(r.c, "undefined variable")
           ELSE Ok(emit([c1 EXCEPT !.type_ = sym.type_], OpCode.SI))

compile_assignment(c) == AssignmentExpression(expr(next(c), TokenType.Assign), c.id)

compile_statement(c) ==
  CASE c.token = TokenType.If     -> compile_if_statement(c)
    [] c.token = TokenType.While  -> compile_while_statement(c)
    [] c.token = TokenType.Return -> compile_return_statement(c)
    [] c.token = TokenType.Fun    -> compile_function_definition(c)
    [] c.token = TokenType.Id     -> compile_assignment(c)
    [] OTHER -> Err(c, "unexpected statement")

(***************************************************************************)
(* compile, compile_function, find_main, run                               *)
(***************************************************************************)
MainName == <<"m","a","i","n">>
IntMainPattern == <<"i","n","t"," ","m","a","i","n">>
ReturnWord == <<"r","e","t","u","r","n">>

\* the index (from 0) of the first symbol of that name, -1 for None
RECURSIVE FindNamed(_, _, _)
FindNamed(symbols, name, i) ==
  IF i > Len(symbols) THEN -1
  ELSE IF symbols[i].name = name THEN i - 1
  ELSE FindNamed(symbols, name, i + 1)

\* the index (from 0) of the first symbol of that name and of class Fun, -1 for None
RECURSIVE FindFunction(_, _, _)
FindFunction(symbols, name, i) ==
  IF i > Len(symbols) THEN -1
  ELSE IF symbols[i].name = name /\ symbols[i].class = TokenType.Fun THEN i - 1
  ELSE FindFunction(symbols, name, i + 1)

find_main(c) == FindFunction(c.symbols, MainName, 1)

\* while p < len && current_char() != ch { p += 1 }
RECURSIVE SkipTo(_, _)
SkipTo(c, ch) ==
  IF c.p < Len(c.source) /\ current_char(c) # ch THEN SkipTo([c EXCEPT !.p = @ + 1], ch)
  ELSE c

\* while p < len && current_char().is_whitespace() { p += 1 }
RECURSIVE SkipSpaces(_)
SkipSpaces(c) ==
  IF c.p < Len(c.source) /\ IsWhitespace(current_char(c)) THEN SkipSpaces([c EXCEPT !.p = @ + 1])
  ELSE c

\* the search for "int main" and the brace after it: [c, found]
RECURSIVE FindIntMain(_)

\* "int main" matched and p moved to the brace, or to the end of the source
IntMainBrace(c) ==
  IF c.p < Len(c.source) THEN [c |-> c, found |-> TRUE]
  ELSE FindIntMain([c EXCEPT !.p = @ + 1])

FindIntMain(c) ==
  IF c.p + Len(IntMainPattern) <= Len(c.source)
  THEN IF Slice(c, c.p, c.p + Len(IntMainPattern)) = IntMainPattern
       THEN IntMainBrace(SkipTo(c, "{"))
       ELSE FindIntMain([c EXCEPT !.p = @ + 1])
  ELSE [c |-> c, found |-> FALSE]

\* the value compile_function loads for a `return` found in the text of the body
ReturnValue(c) == Ord(current_char(c)) - Ord("0")

\* after `return` and the whitespace: IMM digit (or IMM 0), then LEV
ScanReturn(c) ==
  emit(IF c.p < Len(c.source) /\ IsDigit10(current_char(c))
       THEN SkipTo(emit_with_operand(c, OpCode.IMM, ReturnValue(c)), ";")
       ELSE emit_with_operand(c, OpCode.IMM, 0),
       OpCode.LEV)

\* the scan of the text of the body up to the closing brace for a `return`
RECURSIVE ScanBody(_)
ScanBody(c) ==
  IF c.p < Len(c.source) /\ current_char(c) # "}"
  THEN IF current_char(c) = "r" /\ c.p + 6 <= Len(c.source)
          /\ Slice(c, c.p, c.p + 6) = ReturnWord
       THEN ScanReturn(SkipSpaces([c EXCEPT !.p = @ + 6]))
       ELSE ScanBody([c EXCEPT !.p = @ + 1])
  ELSE c

\* if self.e[self.le] != LEV { emit(LEV) }
ImplicitReturn(c) == IF c.e[c.le] # OpCode.LEV THEN emit(c, OpCode.LEV) ELSE c

\* p at the opening brace (or at the end of the source): the body is scanned
BodyBrace(c) ==
  IF c.p < Len(c.source) THEN ScanBody([c EXCEPT !.p = @ + 1]) ELSE c

\* if !found { warning } else { skip to the brace and scan the body }
FunctionBody(f) == IF ~f.found THEN f.c ELSE BodyBrace(SkipTo(f.c, "{"))

\* self.loc = self.le, and (the first search loop, for the function's name,
\* only moves p, which is set back to 0 right after it, and sets `found`,
\* which is set back to false)
EnterBody(c) == [c EXCEPT !.loc = c.le, !.p = 0]

\* ENT, IMM return_type, IMM value
FunctionHeader(c, return_type, value) ==
  emit_with_operand(emit_with_operand(emit(c, OpCode.ENT), OpCode.IMM, return_type),
                    OpCode.IMM, value)

compile_function(c, name, return_type) ==
  LET idx == FindFunction(c.symbols, name, 1)
  IN  IF idx = -1 THEN Err(c, "undefined function")
      ELSE Ok(ImplicitReturn(FunctionBody(FindIntMain(EnterBody(
                FunctionHeader(c, return_type, c.symbols[idx + 1].value))))))

\* the symbol compile pushes for main when the table has none
NewMainSymbol(c) ==
  Symbol(TokenType.Id, HashOf(MainName), MainName, TokenType.Fun, Type.INT, c.le)

\* a compile that pushes a symbol for main whatever the table holds
ClassifyMain_AlwaysPush(c) == [c EXCEPT !.symbols = Append(@, NewMainSymbol(c))]

\* the symbol named main, found by name or by hash, is made a function; when
\* there is none, one is pushed
ClassifyMain(c) ==
  LET byName == FindNamed(c.symbols, MainName, 1)
      idx == IF byName # -1 THEN byName ELSE find_symbol(c, HashOf(MainName), MainName)
  IN  IF idx # -1
      THEN [c EXCEPT !.symbols[idx + 1].class = TokenType.Fun,
                     !.symbols[idx + 1].type_ = Type.INT,
                     !.symbols[idx + 1].value = c.le]
      ELSE [c EXCEPT !.symbols = Append(@, NewMainSymbol(c))]

\* if let Err(e) = compile_function(..) { Err("Compilation error: e") }
CompileResult(r) == IF ~r.ok THEN WrapBare(r, "Compilation error") ELSE r

compile(c) ==
  CompileResult(compile_function(ClassifyMain(next([c EXCEPT !.line = 1])),
                                 MainName, Type.INT))

\* run: the exit status it returns (Ok(0))
run(c, main_idx) == 0

(***************************************************************************)
(* The source texts handed to the compiler.                                *)
(***************************************************************************)
DigitChars == {"0", "2", "4", "8"}

\* the decimal literals of at most MaxDigits digits (no leading zero: that is octal)
Literals ==
  UNION { {lit \in [1..n -> DigitChars] : n = 1 \/ lit[1] # "0"} : n \in 1..MaxDigits }

\* the value a decimal literal denotes
RECURSIVE DecimalValue(_)
DecimalValue(lit) ==
  IF Len(lit) = 0 THEN 0
  ELSE 10 * DecimalValue(SubSeq(lit, 1, Len(lit) - 1)) + (Ord(lit[Len(lit)]) - 48)

\* the program `int main() { return n; }`
ReturnProgram(lit) == <<"i","n","t"," ","m","a","i","n","(",")"," ","{"," ","r","e","t","u","r","n"," ">> \o lit \o <<";"," ","}">>

Src_x == <<"x">>
Src_AddrX == <<"&","x">>
Src_CastCharX == <<"(","c","h","a","r",")","x">>
Src_CastPtr4 == <<"(","i","n","t","*",")","4">>
Src_SizeofNoOpen == <<"s","i","z","e","o","f"," ","i","n","t",")">>
Src_SizeofNoClose == <<"s","i","z","e","o","f","(","c","h","a","r","*">>
Src_While == <<"w","h","i","l","e"," ","(","1",")"," ","{"," ","r","e","t","u","r","n"," ","2",";"," ","}">>
Src_WhileEmpty == <<"w","h","i","l","e"," ","(","x",")"," ","{"," ","}">>
Src_IfElse == <<"i","f"," ","(","1",")"," ","{"," ","r","e","t","u","r","n"," ","1",";"," ","}"," ","e","l","s","e"," ","{"," ","r","e","t","u","r","n"," ","2",";"," ","}">>
Src_If == <<"i","f"," ","(","x",")"," ","{"," ","r","e","t","u","r","n"," ","1",";"," ","}">>
Src_Idents == <<"y"," ","x">>
Src_MainUndefined == <<"i","n","t"," ","m","a","i","n","(",")"," ","{"," ","r","e","t","u","r","n"," ","y",";"," ","}">>
Src_MainAddrLit == <<"i","n","t"," ","m","a","i","n","(",")"," ","{"," ","r","e","t","u","r","n"," ","&","4","2",";"," ","}">>
Src_MainBadLvalue == <<"i","n","t"," ","m","a","i","n","(",")"," ","{"," ","4"," ","="," ","2",";"," ","}">>
Src_MainUnbalanced == <<"i","n","t"," ","m","a","i","n","(",")"," ","{"," ","r","e","t","u","r","n"," ","(","4",";"," ","}">>
Src_MainNoBrace == <<"i","n","t"," ","m","a","i","n","(",")"," ","{"," ","r","e","t","u","r","n"," ","4",";">>

\* `sizeof(T)` for a base type and a number of `*`
Word_int == <<"i","n","t">>
Word_char == <<"c","h","a","r">>
Stars(k) == [i \in 1..k |-> "*"]
SizeofSource(base, k) == <<"s","i","z","e","o","f","(">> \o base \o Stars(k) \o <<")">>
SizeofSources == { SizeofSource(base, k) : base \in {Word_int, Word_char}, k \in 0..MaxStars }

\* programs whose main body holds a construct the expression compiler rejects
BadPrograms == {Src_MainUndefined, Src_MainAddrLit, Src_MainBadLvalue, Src_MainUnbalanced}

FixedSources == {Src_x, Src_AddrX, Src_CastCharX, Src_CastPtr4, Src_SizeofNoOpen, Src_SizeofNoClose, Src_While, Src_WhileEmpty, Src_IfElse, Src_If, Src_Idents, Src_MainUndefined, Src_MainAddrLit, Src_MainBadLvalue, Src_MainUnbalanced, Src_MainNoBrace}

LiteralSources ==
  UNION { {lit, <<"&">> \o lit, <<"-">> \o lit, ReturnProgram(lit)} : lit \in Literals }

Sources == FixedSources \cup LiteralSources \cup SizeofSources

\* texts compiled first, to bring the compiler out of its fresh state
Src_SizeofOpen == <<"s","i","z","e","o","f","(">>
Src_7 == <<"7">>
Src_ExitCall == <<"e","x","i","t","(","7",")">>
PreludeSources == {Src_x, Src_SizeofOpen, Src_7, Src_ExitCall}

\* operator texts: each operator character alone, and followed by one more
\* character
OperatorChars == {"=", "!", "<", ">", "&", "|", "+", "-"}
OperatorSources ==
  { <<a>> : a \in OperatorChars }
    \cup { <<a, b>> : a \in OperatorChars, b \in OperatorChars \cup {"2", " "} }

\* numeric lexemes: [text, radix, digits], the digits being those after the
\* prefix (`0` for octal, `0x` or `0X` for hexadecimal)
OctalChars == {"0", "4", "7"}
HexChars == {"0", "9", "a", "F"}
DigitStrings(chars) == UNION { [1..n -> chars] : n \in 1..MaxDigits }
NumberLexeme(text, radix, digits) == [text |-> text, radix |-> radix, digits |-> digits]
NumberLexemes ==
  { NumberLexeme(lit, 10, lit) : lit \in Literals }
    \cup { NumberLexeme(<<"0">> \o d, 8, d) : d \in DigitStrings(OctalChars) }
    \cup { NumberLexeme(<<"0", x>> \o d, 16, d) : x \in {"x", "X"}, d \in DigitStrings(HexChars) }

\* what may follow a number
NumberTails == {<<>>, <<";">>}
NumberSources == { num.text \o tail : num \in NumberLexemes, tail \in NumberTails }

\* string literals: the text between the double quotes
StringContents == {<<"h", "i">>, <<"o">>, <<"c", "h", "a", "r", " ", "i", "n", "t", "s">>}
StringSource(content) == <<"\"">> \o content \o <<"\"">>
StringSources == { StringSource(content) : content \in StringContents }

\* character literals: one character, or the escape \n, between single quotes
CharChars == {"a", "0", "+"}
CharSource(content) == <<"'">> \o content \o <<"'">>
Src_CharNewline == CharSource(<<"\\", "n">>)
CharSources == { CharSource(<<ch>>) : ch \in CharChars } \cup {Src_CharNewline}

\* binary expressions `a op b`, at the end of the text or before `;` or `)`
Operands == {<<"2">>, <<"x">>}
BinaryOperatorTexts ==
  { <<"+">>, <<"-">>, <<"*">>, <<"/">>, <<"%">>, <<"&">>, <<"|">>, <<"^">>,
    <<"=", "=">>, <<"!", "=">>, <<"<">>, <<">">>, <<"<", "=">>, <<">", "=">>,
    <<"<", "<">>, <<">", ">">> }
ExprTails == {<<>>, <<";">>, <<")">>}
BinarySource(a, op, b, tail) == a \o <<" ">> \o op \o <<" ">> \o b \o tail
BinarySources ==
  { BinarySource(a, op, b, tail) :
      a \in Operands, op \in BinaryOperatorTexts, b \in Operands, tail \in ExprTails }

\* assignments `x = r`
AssignedValues == {<<"5">>, <<"x">>}
AssignSource(r, tail) == <<"x", " ", "=", " ">> \o r \o tail
AssignSources == { AssignSource(r, tail) : r \in AssignedValues, tail \in ExprTails }

\* negations `-n` and `-x`
NegationSource(operand) == <<"-">> \o operand
NegationSources == { NegationSource(operand) : operand \in Literals \cup {<<"x">>} }

\* texts with a line comment and a `#` line
Src_CommentOnly == <<" ", "/", "/", " ", "a">>
Src_HashThenNumber == <<"#", "a", "\n", "2", " ">>
CommentSources == {Src_CommentOnly, Src_HashThenNumber}

UnitSources ==
  OperatorSources \cup NumberSources \cup StringSources \cup CharSources
    \cup BinarySources \cup AssignSources \cup NegationSources
    \cup CommentSources

(***************************************************************************)
(* The state machine: a caller of the compiler, as main() and the tests    *)
(* of src/test_units.rs are.  It creates the compiler, initialises the     *)
(* symbol table, optionally compiles a prelude text (and may classify the  *)
(* identifier just lexed as a variable), then assigns a source text and    *)
(* calls next, expr, compile_statement, compile and run in any order.      *)
(***************************************************************************)
\* the compiler right after C4::new() and init_symbol_table()
Fresh == init_symbol_table(new)

VARIABLES
  c,      \* the compiler object (struct C4)
  pre,    \* the compiler object as it was before the last call
  call,   \* the last call and what it returned
  phase,  \* "new", "init", "prelude" or "main"
  calls   \* calls made since the source text was assigned

vars == <<c, pre, call, phase, calls>>

Call(op, ok, err, ret) == [op |-> op, ok |-> ok, err |-> err, ret |-> ret]

\* the call stays inside the (shortened) code and data buffers
Fits(d) == d.le < CodeSize - 1 /\ d.data_index <= DataSize

Init ==
  /\ c = new
  /\ pre = new
  /\ call = Call("new", TRUE, <<>>, 0)
  /\ phase = "new"
  /\ calls = 0

InitSymbolTable ==
  /\ phase = "new"
  /\ c' = init_symbol_table(c)
  /\ pre' = c
  /\ call' = Call("init_symbol_table", TRUE, <<>>, 0)
  /\ phase' = "init"
  /\ calls' = 0

\* c4.source = text; c4.p = 0
SetSource(d, text) == [d EXCEPT !.source = text, !.p = 0]

LoadPrelude ==
  /\ phase = "init"
  /\ \E text \in PreludeSources :
       /\ c' = SetSource(c, text)
       /\ pre' = c'
  /\ call' = Call("source", TRUE, <<>>, 0)
  /\ phase' = "prelude"
  /\ calls' = 0

LoadMain ==
  /\ phase \in {"init", "prelude"}
  /\ \E text \in Sources :
       /\ c' = SetSource(c, text)
       /\ pre' = c'
  /\ call' = Call("source", TRUE, <<>>, 0)
  /\ phase' = "main"
  /\ calls' = 0

\* the classes, types and addresses a declaration gives a variable
VarClasses == {TokenType.Glo, TokenType.Loc}
VarTypes == {Type.CHAR, Type.INT, Type.INT + Type.PTR}
VarValues == {8}

\* the caller classifies the identifier just lexed as a variable (it writes
\* the fields of the symbol: no method of the compiler is called)
DeclareSymbol(d, class, type_, value) ==
  [d EXCEPT !.symbols[d.id + 1].class = class,
            !.symbols[d.id + 1].type_ = type_,
            !.symbols[d.id + 1].value = value]

Declare ==
  /\ phase = "prelude"
  /\ call.op = "next"
  /\ c.token = TokenType.Id
  /\ c.symbols[c.id + 1].class = 0
  /\ \E class \in VarClasses, type_ \in VarTypes, value \in VarValues :
       c' = DeclareSymbol(c, class, type_, value)
  /\ pre' = c
  /\ call' = Call("declare", TRUE, <<>>, 0)
  /\ UNCHANGED <<phase, calls>>

Next_ ==
  /\ phase \in {"prelude", "main"}
  /\ calls < MaxCalls
  /\ Fits(next(c))
  /\ c' = next(c)
  /\ pre' = c
  /\ call' = Call("next", TRUE, <<>>, 0)
  /\ calls' = calls + 1
  /\ UNCHANGED phase

\* a call returning Result<(), String>
Returns(op, r) ==
  /\ Fits(r.c)
  /\ c' = r.c
  /\ pre' = c
  /\ call' = Call(op, r.ok, r.err, 0)
  /\ calls' = calls + 1
  /\ UNCHANGED phase

Expr ==
  /\ phase \in {"prelude", "main"}
  /\ calls < MaxCalls
  /\ Returns("expr", expr(c, TokenType.Assign))

Statement ==
  /\ phase = "main"
  /\ calls < MaxCalls
  /\ Returns("compile_statement", compile_statement(c))

Compile ==
  /\ phase = "main"
  /\ calls < MaxCalls
  /\ Returns("compile", compile(c))

Run ==
  /\ phase = "main"
  /\ calls < MaxCalls
  /\ find_main(c) # -1
  /\ call' = Call("run", TRUE, <<>>, run(c, find_main(c)))
  /\ pre' = c
  /\ calls' = calls + 1
  /\ UNCHANGED <<c, phase>>

Next ==
  \/ InitSymbolTable
  \/ LoadPrelude
  \/ Declare
  \/ LoadMain
  \/ Next_
  \/ Expr
  \/ Statement
  \/ Compile
  \/ Run

Spec == Init /\ [][Next]_vars

(***************************************************************************)
(* The unit tests of src/test_units.rs: a compiler with an initialised     *)
(* symbol table (fresh, or after a number was lexed, or with a variable x  *)
(* declared) is given one source text, then next and expr are called.      *)
(***************************************************************************)
\* the compiler after the text `7` was lexed: token Num, token_val 7
AfterSeven == next(SetSource(Fresh, Src_7))

\* the compiler after `x` was lexed and classified as a variable
WithX(class, type_) == DeclareSymbol(next(SetSource(Fresh, Src_x)), class, type_, 8)

UnitStarts ==
  {Fresh, AfterSeven} \cup { WithX(class, type_) : class \in VarClasses, type_ \in VarTypes }

UnitInit ==
  /\ \E d \in UnitStarts, text \in UnitSources : c = SetSource(d, text)
  /\ pre = c
  /\ call = Call("source", TRUE, <<>>, 0)
  /\ phase = "main"
  /\ calls = 0

UnitNext ==
  \/ Next_
  \/ Expr

UnitSpec == UnitInit /\ [][UnitNext]_vars

(***************************************************************************)
(* The lexer on its own: a caller that keeps calling next(), as the        *)
(* statement loop of compile_block does until it sees the token it waits   *)
(* for.  The cursor starts anywhere in the text (compile_function leaves   *)
(* it wherever its scan of the text stopped).  The calls are not counted:  *)
(* the state repeats once the end of the text is reached.                  *)
(***************************************************************************)
\* texts that end inside a lexeme
Src_OpenString == <<"\"", "a">>
Src_OpenEscape == <<"'", "\\">>
Src_HexPrefix == <<"0", "x">>
Src_Slash == <<"2", "/">>
Src_OpenComment == <<"/", "/">>
LexSources ==
  UnitSources \cup {Src_OpenString, Src_OpenEscape, Src_HexPrefix, Src_Slash,
                    Src_OpenComment, Src_IfElse, Src_MainBadLvalue}

\* the compilers the calls start from: every text, the cursor anywhere in it
LexStarts ==
  UNION { { [SetSource(d, text) EXCEPT !.p = p] : p \in 0..Len(text) } :
            d \in {Fresh, AfterSeven}, text \in LexSources }

LexInit ==
  /\ c \in LexStarts
  /\ pre = c
  /\ call = Call("source", TRUE, <<>>, 0)
  /\ phase = "main"
  /\ calls = 0

LexStep ==
  /\ Fits(next(c))
  /\ c' = next(c)
  /\ pre' = c
  /\ call' = Call("next", TRUE, <<>>, 0)
  /\ UNCHANGED <<phase, calls>>

\* the cursor is at the end of the text
AtEnd(d) == d.p = Len(d.source)

\* one more call of next() would change nothing: the cursor is at the end of
\* the text and the last call was a next() that found it there
Settled == AtEnd(c) /\ c.token = 0 /\ pre = c /\ call.op = "next"

\* the caller's loop goes on: weak fairness of LexStep, with the condition
\* under which no step is possible written as the state predicate Settled
\* (the property SettledIsDisabled states that the two are the same)
LexFairness == []<>Settled \/ []<><<LexStep>>_vars

LexSpec == LexInit /\ [][LexStep]_vars /\ LexFairness

(***************************************************************************)
(* Properties.  `call` names the last call, `pre` is the compiler before   *)
(* it and `c` the compiler after it.                                       *)
(***************************************************************************)
\* the last call was expr, entered with the whole text `text` lexed as one token
ExprOnToken(text, token) ==
  /\ call.op = "expr"
  /\ c.source = text
  /\ pre.token = token
  /\ pre.p = Len(text)

\* the code of `d` is the code of `b` with `words` written after b's cursor
EmittedExactly(b, d, words) ==
  /\ d.le = b.le + Len(words)
  /\ d.e = [i \in DOMAIN b.e |->
              IF i > b.le /\ i <= b.le + Len(words) THEN words[i - b.le] ELSE b.e[i]]

\* C1: from a fresh compiler with an initialised symbol table, lexing a decimal
\* literal n and calling expr at assignment level returns Ok and writes exactly
\* two code words, IMM at index 1 and n at index 2, leaving le = 2.
C1_LiteralEmitsImm ==
  \A lit \in Literals :
    (ExprOnToken(lit, TokenType.Num) /\ pre.le = 0 /\ pre.e = new.e)
      => /\ call.ok
         /\ c.le = 2
         /\ c.e[1] = OpCode.IMM
         /\ c.e[2] = DecimalValue(lit)
         /\ EmittedExactly(pre, c, <<OpCode.IMM, DecimalValue(lit)>>)

C1_Witness ==
  /\ ExprOnToken(<<"4", "2">>, TokenType.Num)
  /\ pre.le = 0 /\ pre.e = new.e
  /\ call.ok
  /\ c.le = 2 /\ c.e[1] = OpCode.IMM /\ c.e[2] = 42

\* C2: compiling `int main() { return n; }` from a fresh compiler and then
\* executing the result with run returns exit status n.
C2_RunReturnsLiteral ==
  \A lit \in Literals :
    (call.op = "run" /\ pre = compile(SetSource(Fresh, ReturnProgram(lit))).c)
      => call.ret = DecimalValue(lit)

\* the last call was compile_statement on a statement starting with `token`
StatementOn(token) == call.op = "compile_statement" /\ pre.token = token

\* where the condition of the if/while statement compiled last ends: the
\* compiler after `keyword (` and the condition expression
AfterCondition == expr(next(next(pre)), TokenType.Assign).c

\* the index of the code word that emit(BZ) wrote after the condition
BranchIndex == AfterCondition.le + 1

\* C3: when compile_while_statement returns Ok, the BZ and JMP opcode words are
\* still BZ and JMP, the operand word after BZ holds the address of the first
\* instruction after the loop, and the operand word after the trailing JMP
\* holds the address of the first instruction of the condition.
C3_WhileTargets ==
  (StatementOn(TokenType.While) /\ call.ok)
    => /\ c.e[BranchIndex] = OpCode.BZ
       /\ c.e[BranchIndex + 1] = c.le + 1
       /\ c.e[c.le - 1] = OpCode.JMP
       /\ c.e[c.le] = pre.le + 1

\* the compiler after the then-block of the if statement compiled last
AfterThenBlock ==
  compile_block(emit_with_operand(emit(AfterCondition, OpCode.BZ), OpCode.IMM, 0)).c

\* C4: when compile_if_statement returns Ok, the BZ opcode word is not
\* overwritten; with an else, the operand word after the JMP emitted before the
\* else-block holds the address just past the else-block (no placeholder 0 is
\* left) and the operand word after BZ holds an address inside the statement,
\* where the else-block starts; with no else, the operand word after BZ holds
\* the code length after the then-block.
C4_IfTargets ==
  (StatementOn(TokenType.If) /\ call.ok)
    => /\ c.e[BranchIndex] = OpCode.BZ
       /\ IF AfterThenBlock.token = TokenType.Else
          THEN /\ c.e[AfterThenBlock.le + 1] = OpCode.JMP
               /\ c.e[AfterThenBlock.le + 2] = c.le + 1
               /\ c.e[BranchIndex + 1] > AfterThenBlock.le + 2
               /\ c.e[BranchIndex + 1] <= c.le + 1
          ELSE c.e[BranchIndex + 1] = c.le + 1

\* the last call was expr on the text `& operand`, entered with `&` lexed
AddressOfCall(operand) ==
  /\ call.op = "expr"
  /\ c.source = <<"&">> \o operand
  /\ pre.token = TokenType.And
  /\ pre.p = 1

\* C5: for every numeric literal n, compiling `&n` with expr returns a compile
\* error: address-of does not succeed on an operand that is no lvalue load.
C5_AddressOfLiteralFails ==
  \A lit \in Literals : AddressOfCall(lit) => ~call.ok

\* the symbol of the variable named x, when the table holds one
IndexOfX == FindNamed(pre.symbols, <<"x">>, 1)
SymbolX == pre.symbols[IndexOfX + 1]
XIsVariable == IndexOfX # -1 /\ SymbolX.class \in {TokenType.Glo, TokenType.Loc}

\* the address load of x: LEA frame_offset for a local, IMM address for a global
AddressLoadOfX ==
  IF SymbolX.class = TokenType.Loc
  THEN <<OpCode.LEA, pre.loc - SymbolX.value>>
  ELSE <<OpCode.IMM, SymbolX.value>>

\* C6: for a variable x classified as local or global, compiling `&x` with expr
\* returns Ok and leaves as emitted code only the address load of x: the cursor
\* ends one word below where the plain load of x (address load, then LC/LI)
\* would end, and no code word before the address load is changed.
C6_AddressOfVariable ==
  (AddressOfCall(<<"x">>) /\ XIsVariable)
    => /\ call.ok
       /\ c.le = pre.le + 2
       /\ c.le = expr(next(SetSource(pre, <<"x">>)), TokenType.Assign).c.le - 1
       /\ c.e[pre.le + 1] = AddressLoadOfX[1]
       /\ c.e[pre.le + 2] = AddressLoadOfX[2]
       /\ \A i \in 0..pre.le : c.e[i] = pre.e[i]

C6_Witness ==
  /\ AddressOfCall(<<"x">>) /\ XIsVariable
  /\ SymbolX.class = TokenType.Loc
  /\ pre.le > 0
  /\ call.ok
  /\ c.e[pre.le + 1] = OpCode.LEA
  /\ c.le = pre.le + 2

\* C7: after expr returns Ok the tracked type is the type of the expression
\* just compiled, whatever type was tracked before: INT for a numeric literal,
\* the declared type for a variable, the operand's type raised by PTR for `&x`.
C7_TrackedType ==
  /\ \A lit \in Literals :
       (ExprOnToken(lit, TokenType.Num) /\ call.ok) => c.type_ = Type.INT
  /\ (ExprOnToken(<<"x">>, TokenType.Id) /\ XIsVariable /\ call.ok)
       => c.type_ = SymbolX.type_
  /\ (AddressOfCall(<<"x">>) /\ XIsVariable /\ call.ok)
       => c.type_ = SymbolX.type_ + Type.PTR

\* where the lexeme of the last next() starts: after the leading whitespace
LexemeStart == SkipWhitespace(pre).p

\* the identifier characters of `text` from index i (from 1) on
RECURSIVE IdentifierFrom(_, _)
IdentifierFrom(text, i) ==
  IF i <= Len(text) /\ (IsAlphabetic(text[i]) \/ text[i] = "_")
  THEN <<text[i]>> \o IdentifierFrom(text, i + 1)
  ELSE <<>>

\* the identifier the last next() was called on (empty when it was none)
Lexeme == IdentifierFrom(pre.source, LexemeStart + 1)

LexedIdentifier == call.op = "next" /\ Lexeme # <<>>

KeywordNames == { Keywords[i][1] : i \in 1..Len(Keywords) } \cup {<<"v","o","i","d">>}

\* C8: interning is idempotent.  next() on an identifier that is no keyword
\* yields the token Id and the index of a symbol whose name is the lexeme; a
\* name the table already holds keeps its index and the table does not grow;
\* a new name is appended.
C8_InterningIdempotent ==
  LexedIdentifier
    => /\ c.id < Len(c.symbols)
       /\ c.symbols[c.id + 1].name = Lexeme
       /\ (Lexeme \notin KeywordNames => c.token = TokenType.Id)
       /\ IF FindNamed(pre.symbols, Lexeme, 1) # -1
          THEN c.id = FindNamed(pre.symbols, Lexeme, 1) /\ c.symbols = pre.symbols
          ELSE c.id = Len(pre.symbols) /\ Len(c.symbols) = Len(pre.symbols) + 1

\* x, lexed in an earlier text and again after y was lexed in between, keeps
\* its index
C8_Witness ==
  /\ LexedIdentifier
  /\ c.source = Src_Idents
  /\ pre.p = 1
  /\ Lexeme = <<"x">>
  /\ c.token = TokenType.Id
  /\ c.id = Len(Fresh.symbols)
  /\ Len(c.symbols) = Len(Fresh.symbols) + 2

\* the last call was expr on the text `text`, entered with `sizeof` lexed
SizeofCall(text) ==
  /\ call.op = "expr"
  /\ c.source = text
  /\ pre.token = TokenType.Sizeof
  /\ pre.p = 6

\* C9: sizeof(T) emits exactly IMM 1 for char with no `*` and exactly
\* IMM word_size (8) for int and for every pointer type; a missing `(` or `)`
\* is a compile error and emits nothing.
C9_Sizeof ==
  /\ \A base \in {Word_int, Word_char}, k \in 0..MaxStars :
       SizeofCall(SizeofSource(base, k))
         => /\ call.ok
            /\ EmittedExactly(pre, c,
                 <<OpCode.IMM, IF base = Word_char /\ k = 0 THEN 1 ELSE 8>>)
  /\ \A text \in {Src_SizeofNoOpen, Src_SizeofNoClose} :
       SizeofCall(text) => ~call.ok /\ c.le = pre.le /\ c.e = pre.e

C9_Witness ==
  /\ SizeofCall(SizeofSource(Word_char, 2))
  /\ call.ok
  /\ c.le = pre.le + 2
  /\ c.e[c.le - 1] = OpCode.IMM
  /\ c.e[c.le] = 8

\* C10: compile aborts at the first error: for a source whose main body holds
\* a construct the statement or expression compiler rejects, compile returns
\* an error carrying the line number, not Ok.
C10_CompileAborts ==
  (call.op = "compile" /\ c.source \in BadPrograms)
    => ~call.ok /\ c.line \in { call.err[i] : i \in 1..Len(call.err) }

\* the text holds `int main`
DefinesIntMain(text) ==
  \E i \in 1..Len(text) :
    /\ i + Len(IntMainPattern) - 1 <= Len(text)
    /\ SubSeq(text, i, i + Len(IntMainPattern) - 1) = IntMainPattern

\* the indices (from 1) of the symbols named main
MainSymbols(d) == { i \in 1..Len(d.symbols) : d.symbols[i].name = MainName }

\* C11: after compile returns Ok on a source that defines `int main`,
\* find_main returns Some(i) where symbols[i] is named main and of class Fun,
\* and the table holds exactly one symbol named main (from a freshly
\* initialised table and from any later one).
C11_FindMainAfterCompile ==
  (call.op = "compile" /\ call.ok /\ DefinesIntMain(c.source))
    => /\ find_main(c) # -1
       /\ c.symbols[find_main(c) + 1].name = MainName
       /\ c.symbols[find_main(c) + 1].class = TokenType.Fun
       /\ Cardinality(MainSymbols(c)) = 1

C11_Witness ==
  /\ call.op = "compile" /\ call.ok
  /\ pre.symbols = Fresh.symbols
  /\ c.source = ReturnProgram(<<"4", "2">>)
  /\ find_main(c) = Len(Fresh.symbols)
  /\ MainSymbols(c) = {Len(Fresh.symbols) + 1}

\* the two-character operators and their tokens
DoubleOperators ==
  { <<"=", "=">>, <<"!", "=">>, <<"<", "=">>, <<">", "=">>, <<"<", "<">>,
    <<">", ">">>, <<"&", "&">>, <<"|", "|">>, <<"+", "+">>, <<"-", "-">> }

DoubleToken(op) ==
  CASE op = <<"=", "=">> -> TokenType.Eq
    [] op = <<"!", "=">> -> TokenType.Ne
    [] op = <<"<", "=">> -> TokenType.Le
    [] op = <<">", "=">> -> TokenType.Ge
    [] op = <<"<", "<">> -> TokenType.Shl
    [] op = <<">", ">">> -> TokenType.Shr
    [] op = <<"&", "&">> -> TokenType.Lan
    [] op = <<"|", "|">> -> TokenType.Lor
    [] op = <<"+", "+">> -> TokenType.Inc
    [] op = <<"-", "-">> -> TokenType.Dec

\* the token of an operator character that starts no two-character operator
SingleToken(ch) ==
  CASE ch = "=" -> TokenType.Assign
    [] ch = "!" -> Ord("!")
    [] ch = "<" -> TokenType.Lt
    [] ch = ">" -> TokenType.Gt
    [] ch = "&" -> TokenType.And
    [] ch = "|" -> TokenType.Or
    [] ch = "+" -> TokenType.Add
    [] ch = "-" -> TokenType.Sub

\* the last call was next, entered with p at an operator character
LexedOperator ==
  /\ call.op = "next"
  /\ pre.p < Len(pre.source)
  /\ pre.source[pre.p + 1] \in OperatorChars

\* the character next() was entered at, and the one after it (NUL at the end)
FirstChar == pre.source[pre.p + 1]
SecondChar == IF pre.p + 1 < Len(pre.source) THEN pre.source[pre.p + 2] ELSE NUL

\* C12: maximal munch.  next() entered at one of == != <= >= << >> && || ++ --
\* returns the two-character token and consumes both characters; entered at
\* one of = ! < > & | + - that is followed by anything else (or by the end of
\* the text) it consumes one character and returns the one-character token.
C12_MaximalMunch ==
  LexedOperator
    => IF <<FirstChar, SecondChar>> \in DoubleOperators
       THEN c.token = DoubleToken(<<FirstChar, SecondChar>>) /\ c.p = pre.p + 2
       ELSE c.token = SingleToken(FirstChar) /\ c.p = pre.p + 1

C12_Witness ==
  /\ LexedOperator
  /\ pre.source = <<"<", "<">>
  /\ pre.p = 0
  /\ c.token = TokenType.Shl
  /\ c.p = 2

\* the digits in order of value, in both cases
DigitsLower == <<"0","1","2","3","4","5","6","7","8","9","a","b","c","d","e","f">>
DigitsUpper == <<"0","1","2","3","4","5","6","7","8","9","A","B","C","D","E","F">>
ValueOfDigit(ch) ==
  (CHOOSE i \in 1..Len(DigitsLower) : DigitsLower[i] = ch \/ DigitsUpper[i] = ch) - 1

\* the number a string of digits denotes in a radix
RECURSIVE ValueIn(_, _)
ValueIn(digits, radix) ==
  IF Len(digits) = 0 THEN 0
  ELSE radix * ValueIn(SubSeq(digits, 1, Len(digits) - 1), radix)
         + ValueOfDigit(digits[Len(digits)])

\* the last call was next, entered at the start of the text `text`
LexedFromStart(text) == call.op = "next" /\ pre.p = 0 /\ pre.source = text

\* C13: for every numeric lexeme, at the end of the text or before `;`,
\* next() yields Num with the value of the lexeme as payload, reading the
\* digits after `0x`/`0X` in base 16, those after a leading `0` in base 8 and
\* any other number in base 10, and consumes all of the lexeme in that call.
C13_NumberValue ==
  \A num \in NumberLexemes, tail \in NumberTails :
    LexedFromStart(num.text \o tail)
      => /\ c.token = TokenType.Num
         /\ c.token_val = ValueIn(num.digits, num.radix)
         /\ c.p = Len(num.text)

C13_Witness ==
  /\ LexedFromStart(<<"0", "x", "a", "F", ";">>)
  /\ pre.token_val = 7
  /\ c.token = TokenType.Num
  /\ c.token_val = 175
  /\ c.p = 4

\* C14: a double-quoted string literal is lexed as the string-literal token
\* (the code of the double quote) with the data offset where its bytes start
\* as payload, its bytes are in the data segment from that offset on and the
\* data cursor is word-aligned afterwards; expr on that token returns Ok and
\* emits exactly IMM data_offset.
C14_StringLiteral ==
  \A content \in StringContents :
    /\ LexedFromStart(StringSource(content))
         => /\ c.token = Ord("\"")
            /\ c.token_val = pre.data_index
            /\ \A i \in 1..Len(content) :
                 c.data[pre.data_index + i - 1] = Ord(content[i])
            /\ c.data_index % WordSize = 0
            /\ c.data_index >= pre.data_index + Len(content)
    /\ (call.op = "expr" /\ pre.source = StringSource(content)
          /\ pre.p = Len(pre.source) /\ pre.token_val = pre.data_index - AlignWord(Len(content)))
         => /\ call.ok
            /\ EmittedExactly(pre, c, <<OpCode.IMM, pre.token_val>>)

\* the last next() left the data segment and its cursor as they were
DataUntouched == c.data = pre.data /\ c.data_index = pre.data_index

\* C15: for every single character ch, lexing 'ch' yields Num with the
\* character code of ch as value (the code of newline for the escape \n),
\* whatever value the token lexed before carried, and appends nothing to the
\* data segment.
C15_CharLiteral ==
  /\ \A ch \in CharChars :
       LexedFromStart(CharSource(<<ch>>))
         => c.token = TokenType.Num /\ c.token_val = Ord(ch) /\ DataUntouched
  /\ LexedFromStart(Src_CharNewline)
       => c.token = TokenType.Num /\ c.token_val = Ord("\n") /\ DataUntouched

\* the opcode of a binary operator
OpcodeOf(op) ==
  CASE op = <<"+">> -> OpCode.ADD
    [] op = <<"-">> -> OpCode.SUB
    [] op = <<"*">> -> OpCode.MUL
    [] op = <<"/">> -> OpCode.DIV
    [] op = <<"%">> -> OpCode.MOD
    [] op = <<"&">> -> OpCode.AND
    [] op = <<"|">> -> OpCode.OR
    [] op = <<"^">> -> OpCode.XOR
    [] op = <<"=", "=">> -> OpCode.EQ
    [] op = <<"!", "=">> -> OpCode.NE
    [] op = <<"<">> -> OpCode.LT
    [] op = <<">">> -> OpCode.GT
    [] op = <<"<", "=">> -> OpCode.LE
    [] op = <<">", "=">> -> OpCode.GE
    [] op = <<"<", "<">> -> OpCode.SHL
    [] op = <<">", ">">> -> OpCode.SHR

\* the load of x: its address load, then LC for a char and LI otherwise
LoadOfX ==
  AddressLoadOfX \o <<IF SymbolX.type_ = Type.CHAR THEN OpCode.LC ELSE OpCode.LI>>

\* the code of an operand: IMM n for a literal, the load for the variable x
CodeOf(operand) ==
  IF operand = <<"x">> THEN LoadOfX ELSE <<OpCode.IMM, ValueIn(operand, 10)>>

\* the last call was expr on the text `text`, entered with its first operand
\* (a literal, or the declared variable x) lexed
ExprAfterOperand(text, operand) ==
  /\ call.op = "expr"
  /\ pre.source = text
  /\ pre.p = Len(operand)
  /\ pre.token = (IF operand = <<"x">> THEN TokenType.Id ELSE TokenType.Num)
  /\ (<<"x">> \in {operand} \cup {SubSeq(text, i, i) : i \in 1..Len(text)}) => XIsVariable

\* C16: for literals or variables a and b and every binary operator op, expr
\* at assignment level on `a op b` (at the end of the text or before `;` or
\* `)`) returns Ok and emits the code of a, then the code of b, then the one
\* opcode of op, and nothing else: no opcode before the right-hand operand.
C16_BinaryOperator ==
  \A a \in Operands, op \in BinaryOperatorTexts, b \in Operands, tail \in ExprTails :
    ExprAfterOperand(BinarySource(a, op, b, tail), a)
      => /\ call.ok
         /\ EmittedExactly(pre, c, CodeOf(a) \o CodeOf(b) \o <<OpcodeOf(op)>>)

\* the store matching the type of x: SC for a char, SI otherwise
StoreOfX == IF SymbolX.type_ = Type.CHAR THEN OpCode.SC ELSE OpCode.SI

\* C17: for a declared variable x and an expression r, expr at assignment
\* level on `x = r` returns Ok, consumes the whole of r and emits the address
\* load of x, PSH in the place of the trailing LC/LI, the code of r, then the
\* store matching the type of x; `x = 5` for a global int x at address 8
\* emits IMM 8, PSH, IMM 5, SI.
C17_Assignment ==
  \A r \in AssignedValues, tail \in ExprTails :
    ExprAfterOperand(AssignSource(r, tail), <<"x">>)
      => /\ call.ok
         /\ c.p = Len(c.source)
         /\ EmittedExactly(pre, c,
              AddressLoadOfX \o <<OpCode.PSH>> \o CodeOf(r) \o <<StoreOfX>>)

\* the last call was expr on the text `- operand`, entered with `-` lexed
NegationCall(operand) ==
  /\ call.op = "expr"
  /\ pre.source = NegationSource(operand)
  /\ pre.token = TokenType.Sub
  /\ pre.p = 1

\* C18: for every numeric literal n, expr on `-n` emits exactly one
\* instruction, IMM (-n), and nothing else; for the variable x, expr on `-x`
\* emits exactly IMM -1, PSH, the code of x, MUL.
C18_UnaryMinus ==
  /\ \A lit \in Literals :
       NegationCall(lit)
         => call.ok /\ EmittedExactly(pre, c, <<OpCode.IMM, 0 - ValueIn(lit, 10)>>)
  /\ (NegationCall(<<"x">>) /\ XIsVariable)
       => /\ call.ok
          /\ EmittedExactly(pre, c,
               <<OpCode.IMM, 0 - 1, OpCode.PSH>> \o LoadOfX \o <<OpCode.MUL>>)

\* the last call was compile on the program `int main() { return n; }`
CompiledReturn(lit) == call.op = "compile" /\ c.source = ReturnProgram(lit)

\* C19: for every decimal literal n, of one digit or more, the code compile
\* emits for `int main() { return n; }` ends with IMM n, LEV: the full value
\* of n is loaded immediately before the LEV of the return statement.
C19_ReturnLoadsLiteral ==
  \A lit \in Literals :
    CompiledReturn(lit)
      => /\ c.e[c.le] = OpCode.LEV
         /\ c.e[c.le - 1] = DecimalValue(lit)
         /\ c.e[c.le - 2] = OpCode.IMM

\* the symbol find_main returns
MainSymbol == c.symbols[find_main(c) + 1]

\* C20: after compile returns Ok, the value of the main function symbol is
\* the index of the code word that holds ENT, the first instruction of main
\* (the first word written by that compile).
C20_MainEntry ==
  (call.op = "compile" /\ call.ok)
    => /\ find_main(c) # -1
       /\ c.e[pre.le + 1] = OpCode.ENT
       /\ MainSymbol.value = pre.le + 1
       /\ c.e[MainSymbol.value] = OpCode.ENT

\* the index (from 1) just after the end of the line that holds index i
RECURSIVE AfterLine(_, _)
AfterLine(text, i) ==
  IF i > Len(text) THEN i
  ELSE IF text[i] = "\n" THEN i + 1
  ELSE AfterLine(text, i + 1)

\* from index i (from 1) to its end, the text holds only whitespace, line
\* comments and `#` lines
RECURSIVE OnlyBlank(_, _)
OnlyBlank(text, i) ==
  IF i > Len(text) THEN TRUE
  ELSE IF IsWhitespace(text[i]) THEN OnlyBlank(text, i + 1)
  ELSE IF text[i] = "#" THEN OnlyBlank(text, AfterLine(text, i))
  ELSE IF text[i] = "/" /\ i < Len(text) /\ text[i + 1] = "/"
  THEN OnlyBlank(text, AfterLine(text, i))
  ELSE FALSE

\* C21: after any call of next(), the token is the end-of-input marker 0 if
\* and only if the source was exhausted (only whitespace, comments and `#`
\* lines remained from the cursor on): every call that consumes a lexeme
\* leaves a non-zero token.
C21_EndOfInputMarker ==
  call.op = "next" => (c.token = 0 <=> OnlyBlank(pre.source, pre.p + 1))

\* no two symbols of the table have the same name
DistinctNames(d) ==
  \A i, j \in 1..Len(d.symbols) : d.symbols[i].name = d.symbols[j].name => i = j

\* the table of `d` is the table of `b` with symbols appended, the name, hash
\* and token of the symbols of `b` unchanged
Extends(b, d) ==
  /\ Len(d.symbols) >= Len(b.symbols)
  /\ \A i \in 1..Len(b.symbols) :
       /\ d.symbols[i].name = b.symbols[i].name
       /\ d.symbols[i].hash = b.symbols[i].hash
       /\ d.symbols[i].token = b.symbols[i].token

\* C22: in every state reached by init_symbol_table followed by any sequence
\* of next, expr, compile_statement and compile calls, no two symbols have
\* the same name, and the last call left the table at least as long as it
\* was, with the name, hash and token stored at each index unchanged.
C22_AppendOnlyTable ==
  /\ DistinctNames(c)
  /\ Extends(pre, c)

C22_Witness ==
  /\ call.op = "compile"
  /\ Len(pre.symbols) = Len(Fresh.symbols) + 1
  /\ Len(c.symbols) = Len(pre.symbols) + 1
  /\ c.symbols[Len(c.symbols)].name = MainName
  /\ c.symbols[Len(pre.symbols)].name = <<"x">>

\* the opcodes the compiler emits with an operand word (emit_with_operand)
OperandOpcodes == {OpCode.LEA, OpCode.IMM, OpCode.JMP, OpCode.JSR, OpCode.BZ, OpCode.ADJ}

\* the index of the opcode word of the last instruction of e[i..hi], the
\* instructions being read from index i on
RECURSIVE LastInstruction(_, _, _)
LastInstruction(e, i, hi) ==
  LET width == IF e[i] \in OperandOpcodes THEN 2 ELSE 1
  IN  IF i + width > hi THEN i ELSE LastInstruction(e, i + width, hi)

\* C23: for every source text and every value of the emission cursor when
\* compile is called, when compile returns Ok the code emitted for main (the
\* words after the cursor of before the call) ends with a LEV instruction:
\* its last instruction is the one-word instruction LEV, whatever the last
\* word emitted before the implicit-return test was.
C23_MainEndsWithLev ==
  (call.op = "compile" /\ call.ok)
    => /\ LastInstruction(c.e, pre.le + 1, c.le) = c.le
       /\ c.e[c.le] = OpCode.LEV

\* what one call of next() does to the cursor: it stays inside the text,
\* never moves back, moves forward when it was not at the end, and at the end
\* the call changes nothing but the token, which is 0
StepProgress ==
  call.op = "next"
    => /\ pre.p <= c.p
       /\ c.p <= Len(c.source)
       /\ (pre.p < Len(pre.source) => c.p > pre.p)
       /\ AtEnd(pre) => /\ c = [pre EXCEPT !.token = 0]
                        /\ c.symbols = pre.symbols
                        /\ c.data = pre.data /\ c.data_index = pre.data_index

\* a step of LexStep that changes the state is possible exactly when the
\* state is not settled
SettledIsDisabled ==
  ~Settled <=> /\ Fits(next(c))
               /\ <<next(c), c, Call("next", TRUE, <<>>, 0)>> # <<c, pre, call>>

\* C24: lexer progress.  From every cursor position p <= len a call of
\* next() never decreases p, never moves it past len and strictly increases
\* it when p < len; repeated calls eventually reach p = len and stay there,
\* and a call at p = len leaves the cursor, the symbol table and the data
\* segment unchanged and reports token 0.
C24_LexerProgress ==
  /\ [](c.p <= Len(c.source) /\ StepProgress /\ SettledIsDisabled)
  /\ <>[](AtEnd(c))

\* a call at the end of a text whose last token was just lexed
C24_Witness ==
  /\ call.op = "next"
  /\ pre.source = Src_IfElse
  /\ AtEnd(pre)
  /\ pre.token = Ord("}")
  /\ c.token = 0
  /\ c.p = pre.p

=============================================================================
